---- MODULE Spec2Model ----
(***************************************************************************)
(* Model of src/solver/sudoku_solver.py: the Vertex / Graph / Sudoku_solver *)
(* classes and the solve() loop.                                            *)
(*                                                                          *)
(* A process may build several Sudoku_solver objects, each with its own box *)
(* dimension dim (a board of dim^2 x dim^2 cells).  Vertex objects live on  *)
(* one heap and are named by integers in the order they are created: cell   *)
(* c (1 .. dim^4, row-major) of the board of solver s is vertex Vid(s, c).  *)
(* Graph.__init__ has the default argument vertices=list(); Python          *)
(* evaluates it once, so every Graph() built without an argument holds the  *)
(* same list object.  That list is the variable "vertices".                 *)
(***************************************************************************)
EXTENDS Integers, Sequences, FiniteSets, TLC

VARIABLES
    vertices,   \* the list object shared by every Graph() (Graph.__init__ default)
    number,     \* Vertex.number of every vertex on the heap
    options,    \* Vertex.number_options (kept ascending by the code; held as a set)
    illegal,    \* Vertex.illegal_numbers (only membership is ever read; held as a set)
    neighbors,  \* Vertex.neighbors
    memory,     \* Sudoku_solver.memory of every solver: the state stack
    dim,        \* Sudoku_solver.dim of every solver
    raw,        \* the grid each solver was constructed from
    pc,         \* where each solver's control is
    cont_1,     \* solve(): result of the last fill_in_sole_candidates()
    cont_2,     \* solve(): result of the last fill_in_unique_candidates()
    result      \* what solve() returned or raised ("none" before that)

vars == <<vertices, number, options, illegal, neighbors, memory, dim, raw, pc,
          cont_1, cont_2, result>>

-----------------------------------------------------------------------------
(* Sizes and the layout of a board *)

MaxSolvers == 2
Solvers == 1..MaxSolvers

\* k = self.dim ** 2
Side(d) == d * d

RowOf(d, c) == (c - 1) \div Side(d)
ColOf(d, c) == (c - 1) % Side(d)
CellAt(d, y, x) == y * Side(d) + x + 1

N(s) == Side(dim[s])
Cells(s) == 1..(N(s) * N(s))

\* Number of vertices created before those of solver s
RECURSIVE Base(_)
Base(s) == IF s = 1 THEN 0 ELSE Base(s - 1) + N(s - 1) * N(s - 1)

Vid(s, c) == Base(s) + c
CellOf(s, v) == v - Base(s)
OwnCells(s) == {Vid(s, c) : c \in Cells(s)}

-----------------------------------------------------------------------------
(* Variant of SetupNeighbors: the box loop is missing *)
SetupNeighbors_no_box(d, c) ==
    {CellAt(d, RowOf(d, c), x) : x \in {x \in 0..(Side(d) - 1) : x # ColOf(d, c)}}
        \cup {CellAt(d, y, ColOf(d, c)) : y \in {y \in 0..(Side(d) - 1) : y # RowOf(d, c)}}

\* Variant of SetupNeighbors: the box is always the top left one
SetupNeighbors_first_box(d, c) ==
    LET v_y == RowOf(d, c)
        v_x == ColOf(d, c)
    IN  {CellAt(d, v_y, x) : x \in {x \in 0..(Side(d) - 1) : x # v_x}}
        \cup {CellAt(d, y, v_x) : y \in {y \in 0..(Side(d) - 1) : y # v_y}}
        \cup {CellAt(d, yx[1], yx[2]) :
                yx \in {yx \in (0..(d - 1)) \X (0..(d - 1)) :
                          yx[1] # v_y \/ yx[2] # v_x}}

(* Sudoku_solver._setup, second loop nest: the neighbours of board cell c *)

SetupNeighbors(d, c) ==
    LET v_y == RowOf(d, c)
        v_x == ColOf(d, c)
        q_y == d * (v_y \div d)
        q_x == d * (v_x \div d)
    IN  {CellAt(d, v_y, x) : x \in {x \in 0..(Side(d) - 1) : x # v_x}}
        \cup {CellAt(d, y, v_x) : y \in {y \in 0..(Side(d) - 1) : y # v_y}}
        \cup {CellAt(d, q_y + yx[1], q_x + yx[2]) :
                yx \in {yx \in (0..(d - 1)) \X (0..(d - 1)) :
                          q_y + yx[1] # v_y \/ q_x + yx[2] # v_x}}

-----------------------------------------------------------------------------
(* Helpers over Python lists *)

Range(f) == {f[i] : i \in DOMAIN f}
Min(S) == CHOOSE m \in S : \A x \in S : m <= x

-----------------------------------------------------------------------------
(* Sudoku_solver.update_possible_numbers of solver s: runs over self.graph,  *)
(* that is over every vertex of the list g                                   *)

\* Variant of update_possible_numbers: the options of a filled cell are kept
update_possible_numbers_keep_filled(s, g, num, ill, opt) ==
    LET inGraph == Range(g) IN
    [v \in DOMAIN opt |->
        IF v \in inGraph /\ num[v] = 0
        THEN ((1..N(s)) \ {num[nb] : nb \in {nb \in neighbors[v] : num[nb] # 0}})
                \ ill[v]
        ELSE opt[v]]

update_possible_numbers(s, g, num, ill, opt) ==
    LET inGraph == Range(g) IN
    [v \in DOMAIN opt |->
        IF v \in inGraph
        THEN IF num[v] = 0
             THEN ((1..N(s)) \ {num[nb] : nb \in {nb \in neighbors[v] : num[nb] # 0}})
                     \ ill[v]
             ELSE {}
        ELSE opt[v]]

(* Sudoku_solver.fill_in_sole_candidates: the numbers after the pass, and
   the value it returns.  The pass reads number_options and writes number
   only, so the order of the traversal does not show. *)

fill_in_sole_candidates(g, num, opt) ==
    LET inGraph == Range(g) IN
    [v \in DOMAIN num |->
        IF v \in inGraph /\ Cardinality(opt[v]) = 1
        THEN CHOOSE n \in opt[v] : TRUE
        ELSE num[v]]

\* Variant of sole_changed: "changed = True" outside the if
sole_changed_always(g, opt) == g # << >>

sole_changed(g, opt) == \E v \in Range(g) : Cardinality(opt[v]) = 1

(* Sudoku_solver.fill_in_unique_candidates: the three searches of one
   (cell, number) pair, over the solver's own board *)

hidden_row(s, c, n, opt) ==
    LET d == dim[s] IN
    \A x \in 0..(Side(d) - 1) :
        x # ColOf(d, c) => n \notin opt[Vid(s, CellAt(d, RowOf(d, c), x))]

hidden_col(s, c, n, opt) ==
    LET d == dim[s] IN
    \A y \in 0..(Side(d) - 1) :
        y # RowOf(d, c) => n \notin opt[Vid(s, CellAt(d, y, ColOf(d, c)))]

hidden_box(s, c, n, opt) ==
    LET d == dim[s]
        q_y == d * (RowOf(d, c) \div d)
        q_x == d * (ColOf(d, c) \div d)
    IN  \A y \in 0..(d - 1) : \A x \in 0..(d - 1) :
            (q_y + y # RowOf(d, c) \/ q_x + x # ColOf(d, c))
                => n \notin opt[Vid(s, CellAt(d, q_y + y, q_x + x))]

is_unique(s, c, n, opt) ==
    hidden_row(s, c, n, opt) \/ hidden_col(s, c, n, opt) \/ hidden_box(s, c, n, opt)

(* The loop "for number in vertex.number_options" of one cell: every number
   found unique is assigned and the loop goes on with the next number
   ("continue"), so a later unique number overwrites an earlier one.
   nums: the numbers still to visit, cur: vertex.number so far. *)
RECURSIVE unique_numbers_loop(_, _, _, _, _)
unique_numbers_loop(s, c, nums, cur, opt) ==
    IF nums = {} THEN cur
    ELSE LET n == Min(nums)
         IN  unique_numbers_loop(s, c, nums \ {n},
                                 IF is_unique(s, c, n, opt) THEN n ELSE cur, opt)

fill_in_unique_candidates(s, num, opt) ==
    LET own == OwnCells(s) IN
    [v \in DOMAIN num |->
        IF v \in own
        THEN unique_numbers_loop(s, CellOf(s, v), opt[v], num[v], opt)
        ELSE num[v]]

unique_changed(s, opt) ==
    \E c \in Cells(s) : \E n \in opt[Vid(s, c)] : is_unique(s, c, n, opt)

\* Variant of is_solved: the comparison is inverted
is_solved_inverted(g, num) == \A v \in Range(g) : num[v] = 0

(* Sudoku_solver.is_solved: over self.graph *)
is_solved(g, num) == \A v \in Range(g) : num[v] # 0

\* Variant of is_legal_board: the neighbours are not compared
is_legal_board_no_neighbors(s, num, opt) ==
    \A v1 \in OwnCells(s) : ~(num[v1] = 0 /\ opt[v1] = {})

\* Variant of is_legal_board: an empty cell without options is not looked for
is_legal_board_no_options(s, num, opt) ==
    \A v1 \in OwnCells(s) :
        \A v2 \in neighbors[v1] : ~(num[v2] # 0 /\ num[v1] = num[v2])

\* Variant of is_legal_board: a filled cell without options counts as a dead end
is_legal_board_any_options(s, num, opt) ==
    \A v1 \in OwnCells(s) :
        /\ opt[v1] # {}
        /\ \A v2 \in neighbors[v1] : ~(num[v2] # 0 /\ num[v1] = num[v2])

(* Sudoku_solver.is_legal_board: over self.board *)
is_legal_board(s, num, opt) ==
    \A v1 \in OwnCells(s) :
        /\ ~(num[v1] = 0 /\ opt[v1] = {})
        /\ \A v2 \in neighbors[v1] : ~(num[v2] # 0 /\ num[v1] = num[v2])

\* Variant of least_known_vertex: a later vertex with as many options wins
least_known_vertex_last(g, opt) ==
    LET best == CHOOSE i \in DOMAIN g :
                    /\ \A j \in DOMAIN g : Cardinality(opt[g[j]]) <= Cardinality(opt[g[i]])
                    /\ \A j \in (i + 1)..Len(g) : Cardinality(opt[g[j]]) < Cardinality(opt[g[i]])
    IN  g[best]

(* Sudoku_solver.numerate_least_known_vertex: the vertex the scan ends on.
   lkv starts as graph[0] and moves only to a strictly longer option list:
   the first vertex of the list among those with the most options. *)
least_known_vertex(g, opt) ==
    LET best == CHOOSE i \in DOMAIN g :
                    /\ \A j \in DOMAIN g : Cardinality(opt[g[j]]) <= Cardinality(opt[g[i]])
                    /\ \A j \in 1..(i - 1) : Cardinality(opt[g[j]]) < Cardinality(opt[g[i]])
    IN  g[best]

\* Variant of save_legal_state: the first vertex of the board is recorded
save_legal_state_first(s, num, ill, uncertian_vertex, uncertain_number) ==
    [state |-> [c \in Cells(s) |-> num[Vid(s, c)]],
     illegal_numbers |-> [c \in Cells(s) |-> ill[Vid(s, c)]],
     vertex |-> Vid(s, 1),
     number |-> uncertain_number]

(* Sudoku_solver.save_legal_state: the tuple appended to self.memory *)
save_legal_state(s, num, ill, uncertian_vertex, uncertain_number) ==
    [state |-> [c \in Cells(s) |-> num[Vid(s, c)]],
     illegal_numbers |-> [c \in Cells(s) |-> ill[Vid(s, c)]],
     vertex |-> uncertian_vertex,
     number |-> uncertain_number]

(* Vertex.add_illegal_number *)
add_illegal_number_options(opt, v, n) == [opt EXCEPT ![v] = @ \ {n}]

\* Variant of add_illegal_number: the number is not recorded
add_illegal_number_forget(ill, v, n) == ill

add_illegal_number_illegal(ill, v, n) == [ill EXCEPT ![v] = @ \cup {n}]

\* Variant of load_number: row and column are exchanged when restoring
load_number_transposed(s, num, top) ==
    LET own == OwnCells(s)
        d == dim[s]
    IN  [v \in DOMAIN num |->
            IF v \in own
            THEN top.state[CellAt(d, ColOf(d, CellOf(s, v)), RowOf(d, CellOf(s, v)))]
            ELSE num[v]]

\* Variant of load_number: the numbers are not restored
load_number_keep(s, num, top) == num

(* Sudoku_solver.load_previous_legal_state, for the popped tuple top *)
load_number(s, num, top) ==
    LET own == OwnCells(s) IN
    [v \in DOMAIN num |->
        IF v \in own THEN top.state[CellOf(s, v)] ELSE num[v]]

\* Variant of load_illegal: the illegal numbers are not restored
load_illegal_keep(s, ill, top) ==
    add_illegal_number_illegal(ill, top.vertex, top.number)

(* Sudoku_solver.load_previous_legal_state: the illegal numbers after it *)
load_illegal(s, ill, top) ==
    LET own == OwnCells(s) IN
    add_illegal_number_illegal(
        [v \in DOMAIN ill |->
            IF v \in own THEN top.illegal_numbers[CellOf(s, v)] ELSE ill[v]],
        top.vertex, top.number)

-----------------------------------------------------------------------------
(* Input grids.  A grid is the tuple of its values in row-major order; an
   input is a grid with the dim it is given to the constructor with. *)

MaxGivens == 4
MaxBlanks == 8

\* dim of the 4x4 boards
SmallDim == 2
\* dim of the 9x9 boards, the default of the constructor
ClassicDim == 3

SmallCells == 1..(Side(SmallDim) * Side(SmallDim))

EmptyBoard == [c \in SmallCells |-> 0]

\* A legally filled 4x4 grid
FullBoard == << 4, 1, 3, 2,
                2, 3, 4, 1,
                1, 4, 2, 3,
                3, 2, 1, 4 >>

\* The 4x4 scenario of the specification
ScenarioBoard == << 0, 0, 0, 0,
                    0, 3, 0, 0,
                    1, 0, 2, 0,
                    0, 0, 0, 4 >>

\* A 4x4 grid without a repeated value that has no legal completion
DeadEndBoard == << 4, 0, 0, 0,
                   0, 0, 0, 0,
                   0, 0, 0, 4,
                   0, 2, 0, 0 >>

\* A 9x9 puzzle whose solution needs guesses several levels deep
ClassicBoard == << 0, 0, 0, 4, 0, 0, 0, 8, 1,
                   0, 2, 0, 6, 8, 0, 3, 9, 0,
                   0, 0, 0, 0, 0, 0, 0, 2, 0,
                   0, 5, 0, 0, 7, 6, 0, 0, 0,
                   0, 7, 0, 0, 1, 0, 0, 0, 4,
                   0, 1, 0, 0, 0, 4, 0, 0, 0,
                   5, 0, 0, 0, 0, 0, 0, 0, 0,
                   0, 0, 0, 0, 0, 0, 0, 0, 0,
                   1, 3, 0, 0, 4, 0, 7, 6, 0 >>

\* A legally filled 9x9 grid
ClassicFullBoard == << 1, 2, 3, 4, 5, 6, 7, 8, 9,
                       4, 5, 6, 7, 8, 9, 1, 2, 3,
                       7, 8, 9, 1, 2, 3, 4, 5, 6,
                       2, 3, 4, 5, 6, 7, 8, 9, 1,
                       5, 6, 7, 8, 9, 1, 2, 3, 4,
                       8, 9, 1, 2, 3, 4, 5, 6, 7,
                       3, 4, 5, 6, 7, 8, 9, 1, 2,
                       6, 7, 8, 9, 1, 2, 3, 4, 5,
                       9, 1, 2, 3, 4, 5, 6, 7, 8 >>

GivenOrder == << 1, 2, 6, 11, 16, 4, 13, 7, 10, 3, 5, 8, 9, 12, 14, 15 >>
BlankOrder == << 1, 6, 11, 16, 2, 8, 9, 15, 3, 5, 12, 14, 4, 7, 10, 13 >>

GivenCells == {GivenOrder[i] : i \in 1..MaxGivens}
BlankCells == {BlankOrder[i] : i \in 1..MaxBlanks}

\* 4x4 grids with values 0..4 on the first MaxGivens cells of GivenOrder
GivenBoards ==
    {[c \in SmallCells |-> IF c \in GivenCells THEN f[c] ELSE 0] :
        f \in [GivenCells -> 0..Side(SmallDim)]}

\* FullBoard with some of the first MaxBlanks cells of BlankOrder emptied
BlankBoards ==
    {[c \in SmallCells |-> IF c \in B THEN 0 ELSE FullBoard[c]] :
        B \in SUBSET BlankCells}

\* FullBoard with one cell overwritten, also by the value 5
CorruptBoards ==
    {[FullBoard EXCEPT ![c] = v] : c \in SmallCells, v \in 1..(Side(SmallDim) + 1)}

\* FullBoard with one cell overwritten by 5 and the next cell emptied
OutOfRangeBoards ==
    {[FullBoard EXCEPT ![c] = Side(SmallDim) + 1,
                       ![(c % Cardinality(SmallCells)) + 1] = 0] : c \in SmallCells}

\* The cells that share a row, a column or a box with cell c
SameUnit(d, c, e) ==
    \/ RowOf(d, c) = RowOf(d, e)
    \/ ColOf(d, c) = ColOf(d, e)
    \/ (RowOf(d, c) \div d = RowOf(d, e) \div d /\ ColOf(d, c) \div d = ColOf(d, e) \div d)

Peers(d, c) == {e \in 1..(Side(d) * Side(d)) : e # c /\ SameUnit(d, c, e)}

\* The legally filled grids that extend b (b has no two equal peers)
RECURSIVE Completions(_, _)
Completions(d, b) ==
    IF \A c \in DOMAIN b : b[c] # 0 THEN {b}
    ELSE LET c == Min({e \in DOMAIN b : b[e] = 0})
         IN  UNION {Completions(d, [b EXCEPT ![c] = v]) :
                      v \in (1..Side(d)) \ {b[e] : e \in Peers(d, c)}}

\* Every legally filled 4x4 grid
LegalGrids == Completions(SmallDim, EmptyBoard)

Input(b, d) == [board |-> b, dim |-> d]

SmallInputs ==
    {Input(b, SmallDim) :
        b \in GivenBoards \cup BlankBoards \cup CorruptBoards \cup OutOfRangeBoards
                \cup LegalGrids \cup {ScenarioBoard, DeadEndBoard}}

\* 1x1 boards (also with the value 2), and the board of dim 0
TinyInputs == {Input(<<v>>, 1) : v \in 0..2} \cup {Input(<< >>, 0)}

ClassicInputs == {Input(ClassicBoard, ClassicDim), Input(ClassicFullBoard, ClassicDim)}

Inputs == SmallInputs \cup TinyInputs \cup ClassicInputs

\* Inputs of the solvers of a process that builds two of them
TwoInputs ==
    {Input(b, SmallDim) :
        b \in {ScenarioBoard, FullBoard, EmptyBoard,
               [EmptyBoard EXCEPT ![1] = 1, ![2] = 1],
               [FullBoard EXCEPT ![1] = 0, ![6] = 0]}}
      \cup {Input(<<0>>, 1)}

-----------------------------------------------------------------------------
(* The state machine *)

(* self.graph of solver s: Graph() binds self.vertices to the default list *)
graph(s) == vertices

Init ==
    /\ vertices = << >>
    /\ number = [v \in {} |-> 0]
    /\ options = [v \in {} |-> {}]
    /\ illegal = [v \in {} |-> {}]
    /\ neighbors = [v \in {} |-> {}]
    /\ memory = [s \in Solvers |-> << >>]
    /\ dim = [s \in Solvers |-> 0]
    /\ raw = [s \in Solvers |-> << >>]
    /\ pc = [s \in Solvers |-> "new"]
    /\ cont_1 = [s \in Solvers |-> TRUE]
    /\ cont_2 = [s \in Solvers |-> TRUE]
    /\ result = [s \in Solvers |-> "none"]

(* Sudoku_solver.__init__ and _setup on the grid in.board with dim in.dim.
   Solvers are numbered in the order they are built.  No check of the
   arguments is made. *)
Construct(s, in) ==
    /\ pc[s] = "new"
    /\ \A t \in 1..(s - 1) : pc[t] # "new"
    /\ LET d == in.dim
           b == in.board
           k == Side(d) * Side(d)
           own == {Base(s) + c : c \in 1..k}
       IN  /\ dim' = [dim EXCEPT ![s] = d]
           /\ raw' = [raw EXCEPT ![s] = b]
           /\ number' = [v \in DOMAIN number \cup own |->
                           IF v \in own THEN b[v - Base(s)] ELSE number[v]]
           /\ options' = [v \in DOMAIN options \cup own |->
                           IF v \in own THEN {} ELSE options[v]]
           /\ illegal' = [v \in DOMAIN illegal \cup own |->
                           IF v \in own THEN {} ELSE illegal[v]]
           /\ neighbors' = [v \in DOMAIN neighbors \cup own |->
                           IF v \in own
                           THEN {Base(s) + p : p \in SetupNeighbors(d, v - Base(s))}
                           ELSE neighbors[v]]
           /\ vertices' = IF k = 0 THEN vertices
                          ELSE vertices \o [c \in 1..k |-> Base(s) + c]
    /\ memory' = [memory EXCEPT ![s] = << >>]
    /\ pc' = [pc EXCEPT ![s] = "ready"]
    /\ UNCHANGED <<cont_1, cont_2, result>>

(* solve(): "while not self.is_solved()" is false: return self.is_legal_board() *)
SolveReturn(s) ==
    /\ pc[s] \in {"ready", "outer"}
    /\ is_solved(graph(s), number) = TRUE
    /\ result' = [result EXCEPT ![s] =
                    IF is_legal_board(s, number, options) THEN "True" ELSE "False"]
    /\ pc' = [pc EXCEPT ![s] = "done"]
    /\ UNCHANGED <<vertices, number, options, illegal, neighbors, memory, dim, raw,
                   cont_1, cont_2>>

(* solve(): the outer loop is entered: update_possible_numbers(),
   cont_1, cont_2 = True, True *)
SolveIterate(s) ==
    /\ pc[s] \in {"ready", "outer"}
    /\ ~is_solved(graph(s), number)
    /\ options' = update_possible_numbers(s, graph(s), number, illegal, options)
    /\ cont_1' = [cont_1 EXCEPT ![s] = TRUE]
    /\ cont_2' = [cont_2 EXCEPT ![s] = TRUE]
    /\ pc' = [pc EXCEPT ![s] = "sole"]
    /\ UNCHANGED <<vertices, number, illegal, neighbors, memory, dim, raw, result>>

(* The body of "while cont_1 or cont_2" in solve(): fill_in_sole_candidates,
   update_possible_numbers, fill_in_unique_candidates,
   update_possible_numbers *)
saturation_pass(s, g, num, ill, opt) ==
    LET n1 == fill_in_sole_candidates(g, num, opt)
        o1 == update_possible_numbers(s, g, n1, ill, opt)
        n2 == fill_in_unique_candidates(s, n1, o1)
        o2 == update_possible_numbers(s, g, n2, ill, o1)
    IN  [number |-> n2,
         options |-> o2,
         cont_1 |-> sole_changed(g, opt),
         cont_2 |-> unique_changed(s, o1)]

\* Variant of saturation_continues: "and" for "or"
saturation_continues_and(c1, c2) == c1 /\ c2

(* The loop test "while cont_1 or cont_2" *)
saturation_continues(c1, c2) == c1 \/ c2

(* First half of an iteration of "while cont_1 or cont_2":
   cont_1 = self.fill_in_sole_candidates(); self.update_possible_numbers() *)
SoleStep(s) ==
    /\ pc[s] = "sole"
    /\ number' = fill_in_sole_candidates(graph(s), number, options)
    /\ options' = update_possible_numbers(s, graph(s), number', illegal, options)
    /\ cont_1' = [cont_1 EXCEPT ![s] = sole_changed(graph(s), options)]
    /\ pc' = [pc EXCEPT ![s] = "unique"]
    /\ UNCHANGED <<vertices, illegal, neighbors, memory, dim, raw, cont_2, result>>

(* Second half of the iteration, and the loop test that follows it:
   cont_2 = self.fill_in_unique_candidates(); self.update_possible_numbers() *)
UniqueStep(s) ==
    /\ pc[s] = "unique"
    /\ number' = fill_in_unique_candidates(s, number, options)
    /\ options' = update_possible_numbers(s, graph(s), number', illegal, options)
    /\ cont_2' = [cont_2 EXCEPT ![s] = unique_changed(s, options)]
    /\ pc' = [pc EXCEPT ![s] =
                 IF saturation_continues(cont_1[s], cont_2'[s]) THEN "sole" ELSE "check"]
    /\ UNCHANGED <<vertices, illegal, neighbors, memory, dim, raw, cont_1, result>>

(* One iteration of "while not self.is_legal_board()" with a state to load:
   load_previous_legal_state(), update_possible_numbers() *)
Backtrack(s) ==
    /\ pc[s] = "check"
    /\ ~is_legal_board(s, number, options)
    /\ Len(memory[s]) >= 1
    /\ LET top == memory[s][Len(memory[s])]
       IN  /\ memory' = [memory EXCEPT ![s] = SubSeq(@, 1, Len(@) - 1)]
           /\ number' = load_number(s, number, top)
           /\ illegal' = load_illegal(s, illegal, top)
           /\ options' = update_possible_numbers(s, graph(s), number', illegal',
                            add_illegal_number_options(options, top.vertex, top.number))
    /\ UNCHANGED <<vertices, neighbors, dim, raw, pc, cont_1, cont_2, result>>

\* Variant of BacktrackRaise: the empty memory ends solve() with False
BacktrackReturnFalse(s) ==
    /\ pc[s] = "check"
    /\ ~is_legal_board(s, number, options)
    /\ Len(memory[s]) < 1
    /\ pc' = [pc EXCEPT ![s] = "done"]
    /\ result' = [result EXCEPT ![s] = "False"]
    /\ UNCHANGED <<vertices, number, options, illegal, neighbors, memory, dim, raw,
                   cont_1, cont_2>>

(* load_previous_legal_state() with an empty memory raises IndexError, which
   nothing in solve() catches *)
BacktrackRaise(s) ==
    /\ pc[s] = "check"
    /\ ~is_legal_board(s, number, options)
    /\ Len(memory[s]) < 1
    /\ pc' = [pc EXCEPT ![s] = "raised"]
    /\ result' = [result EXCEPT ![s] = "IndexError"]
    /\ UNCHANGED <<vertices, number, options, illegal, neighbors, memory, dim, raw,
                   cont_1, cont_2>>

(* The board is legal: numerate_least_known_vertex(), back to the outer test *)
Numerate(s) ==
    /\ pc[s] = "check"
    /\ is_legal_board(s, number, options) = TRUE
    /\ LET lkv == least_known_vertex(graph(s), options)
       IN  IF Cardinality(options[lkv]) = 0
           THEN UNCHANGED <<number, memory>>
           ELSE LET i == Min(options[lkv])
                IN  /\ memory' = [memory EXCEPT ![s] =
                            Append(@, save_legal_state(s, number, illegal, lkv, i))]
                    /\ number' = [number EXCEPT ![lkv] = i]
    /\ pc' = [pc EXCEPT ![s] = "outer"]
    /\ UNCHANGED <<vertices, options, illegal, neighbors, dim, raw, cont_1, cont_2, result>>

SolveStep(s) ==
    \/ SolveReturn(s)
    \/ SolveIterate(s)
    \/ SoleStep(s)
    \/ UniqueStep(s)
    \/ Backtrack(s)
    \/ BacktrackRaise(s)
    \/ Numerate(s)

(* A process that builds one solver and runs solve() on it *)
Build ==
    /\ pc[1] = "new"
    /\ \E in \in Inputs : Construct(1, in)

Next ==
    \/ Build
    \/ SolveStep(1)

Spec == Init /\ [][Next]_vars

(* solve() is a synchronous call: once the solver is built, its steps are
   taken until it returns or raises *)
FairSpec == Spec /\ WF_vars(SolveStep(1))

(* A process that builds two solvers and calls their solve() in any order.
   The code is single-threaded: a call that has started runs until it
   returns or raises before anything else happens in the process. *)
Running(s) == pc[s] \in {"outer", "sole", "unique", "check"}

BuildTwo(s) ==
    /\ pc[s] = "new"
    /\ \A t \in Solvers : ~Running(t)
    /\ \E in \in TwoInputs : Construct(s, in)

SolveStepTwo(s) ==
    /\ \A t \in Solvers \ {s} : ~Running(t)
    /\ SolveStep(s)

NextTwo ==
    \/ \E s \in Solvers : BuildTwo(s)
    \/ \E s \in Solvers : SolveStepTwo(s)

SpecTwo == Init /\ [][NextTwo]_vars

-----------------------------------------------------------------------------
(* Vocabulary of the properties *)

\* The board of solver s as a grid
Board(s) == [c \in Cells(s) |-> number[Vid(s, c)]]

Rows(d) == {{c \in 1..(Side(d) * Side(d)) : RowOf(d, c) = y} : y \in 0..(Side(d) - 1)}
Cols(d) == {{c \in 1..(Side(d) * Side(d)) : ColOf(d, c) = x} : x \in 0..(Side(d) - 1)}
Boxes(d) ==
    {{c \in 1..(Side(d) * Side(d)) :
        RowOf(d, c) \div d = q[1] /\ ColOf(d, c) \div d = q[2]} :
            q \in (0..(d - 1)) \X (0..(d - 1))}
Units(d) == Rows(d) \cup Cols(d) \cup Boxes(d)

\* Every row, column and box of g holds each value 1..N exactly once
IsSolution(d, g) == \A U \in Units(d) : {g[c] : c \in U} = 1..Side(d)

\* dim is at least 1, the grid has dim^2 x dim^2 cells with values 0..dim^2
WellFormed(d, b) ==
    /\ d >= 1
    /\ DOMAIN b = 1..(Side(d) * Side(d))
    /\ \A c \in DOMAIN b : b[c] \in 0..Side(d)

\* Two equal nonzero values in one row, column or box
HasDuplicate(d, b) ==
    \E c \in DOMAIN b : b[c] # 0 /\ \E e \in Peers(d, c) : b[e] = b[c]

RECURSIVE HasCompletion(_, _)
HasCompletion(d, b) ==
    IF \A c \in DOMAIN b : b[c] # 0 THEN TRUE
    ELSE LET c == Min({e \in DOMAIN b : b[e] = 0})
         IN  \E v \in (1..Side(d)) \ {b[e] : e \in Peers(d, c)} :
                HasCompletion(d, [b EXCEPT ![c] = v])

\* The givens of b can be extended to a legally filled grid
Solvable(d, b) == WellFormed(d, b) /\ ~HasDuplicate(d, b) /\ HasCompletion(d, b)

Extends(g, b) == \A c \in DOMAIN b : b[c] # 0 => g[c] = b[c]

\* The candidate sets opt are what the numbers num and excluded sets ill
\* determine: empty for a filled cell, 1..N less the values of the filled
\* peers less the excluded values for an empty one
FreshCandidates(s, num, ill, opt) ==
    \A c \in Cells(s) :
        opt[Vid(s, c)] =
            IF num[Vid(s, c)] # 0 THEN {}
            ELSE ((1..N(s)) \ {num[Vid(s, p)] : p \in Peers(dim[s], c)})
                    \ ill[Vid(s, c)]

\* No empty cell of solver s is without candidates and no two peers hold the
\* same nonzero value
LegalState(s) ==
    \A c \in Cells(s) :
        /\ ~(number[Vid(s, c)] = 0 /\ options[Vid(s, c)] = {})
        /\ \A p \in Peers(dim[s], c) :
              ~(number[Vid(s, p)] # 0 /\ number[Vid(s, c)] = number[Vid(s, p)])

\* Every cell of solver s holds a number
Filled(s) == \A c \in Cells(s) : number[Vid(s, c)] # 0

\* The candidates of cell c of solver s that no other cell of its row, of
\* its column or of its box has as a candidate
HiddenSingles(s, c) ==
    {n \in options[Vid(s, c)] :
        \E U \in Units(dim[s]) :
            /\ c \in U
            /\ \A e \in U \ {c} : n \notin options[Vid(s, e)]}

Terminated(s) == pc[s] \in {"done", "raised"}

-----------------------------------------------------------------------------
(* C1: for every input board that has a legal completion, solve() returns
   True and every row, column and box of the final board holds each value
   1..N exactly once (in particular solve() does not raise). *)
C1_SolvableIsSolved ==
    (Terminated(1) /\ Solvable(dim[1], raw[1]))
        => (result[1] = "True" /\ IsSolution(dim[1], Board(1)))

\* a solvable board was solved after guessing and backtracking
C1_Witness ==
    /\ pc[1] = "done"
    /\ Solvable(dim[1], raw[1])
    /\ result[1] = "True"
    /\ Len(memory[1]) >= 2
    /\ \E v \in OwnCells(1) : illegal[v] # {}

(* C2: for every input board with two equal nonzero values in a row, column
   or box, solve() ends with the normal return value False and raises
   nothing. *)
C2_DuplicateReturnsFalse ==
    (Terminated(1) /\ WellFormed(dim[1], raw[1]) /\ HasDuplicate(dim[1], raw[1]))
        => (pc[1] = "done" /\ result[1] = "False")

(* C3: for every fully and legally filled input board, solve() returns True
   at once: no loop iteration is entered, the state stack stays empty and
   no cell value changes. *)
C3_FullBoardImmediate ==
    (pc[1] # "new" /\ WellFormed(dim[1], raw[1]) /\ IsSolution(dim[1], raw[1]))
        => /\ pc[1] \in {"ready", "done"}
           /\ memory[1] = << >>
           /\ Board(1) = raw[1]
           /\ (pc[1] = "done" => result[1] = "True")

C3_Witness ==
    /\ pc[1] = "done"
    /\ dim[1] = ClassicDim
    /\ IsSolution(dim[1], raw[1])
    /\ result[1] = "True"
    /\ memory[1] = << >>

\* The legal completions of the givens of the scenario board
ScenarioCompletions == {g \in LegalGrids : Extends(g, ScenarioBoard)}

(* C4: on the 4x4 scenario board solve() returns True and the final grid is
   the only legal completion of the givens; its third row is 1 4 2 3. *)
C4_Scenario ==
    (dim[1] = SmallDim /\ raw[1] = ScenarioBoard /\ Terminated(1))
        => /\ result[1] = "True"
           /\ ScenarioCompletions = {Board(1)}
           /\ IsSolution(SmallDim, Board(1))
           /\ <<Board(1)[9], Board(1)[10], Board(1)[11], Board(1)[12]>> = <<1, 4, 2, 3>>

C4_Witness ==
    /\ dim[1] = SmallDim
    /\ raw[1] = ScenarioBoard
    /\ pc[1] = "done"
    /\ result[1] = "True"

(* C5: during one solve() run the excluded set of every cell only grows,
   also across every backtrack. *)
C5_ExcludedOnlyGrows ==
    [][\A v \in DOMAIN illegal : illegal[v] \subseteq illegal'[v]]_vars

(* C5, amended: the excluded sets change only in a backtrack step; the step
   replaces every cell's excluded set by the set recorded in the popped
   snapshot and adds the popped guess to the guessed cell's set. *)
C5_ExcludedRestored ==
    [][IF Len(memory'[1]) < Len(memory[1])
       THEN LET top == memory[1][Len(memory[1])]
            IN  \A c \in Cells(1) :
                    illegal'[Vid(1, c)] =
                        top.illegal_numbers[c]
                            \cup (IF top.vertex = Vid(1, c) THEN {top.number} ELSE {})
       ELSE \A v \in DOMAIN illegal : illegal'[v] = illegal[v]]_vars

\* a guess stands on the stack and an exclusion was learned after it was made
C5_Witness ==
    /\ pc[1] = "check"
    /\ WellFormed(dim[1], raw[1])
    /\ Len(memory[1]) >= 1
    /\ \E c \in Cells(1) :
          illegal[Vid(1, c)] # memory[1][Len(memory[1])].illegal_numbers[c]

(* C6: an input with dim < 1 or with a value outside 0..N is rejected when
   the solver is built; no solver that can run results from it. *)
C6_MalformedRejected ==
    \A s \in Solvers :
        (pc[s] # "new" /\ ~WellFormed(dim[s], raw[s])) => pc[s] = "rejected"

(* C7: each solver's graph holds exactly the N*N cells of its own board,
   whatever other solvers the process has built. *)
C7_GraphIsOwnBoard ==
    \A s \in Solvers : pc[s] # "new" => Range(graph(s)) = OwnCells(s)

(* C8: when the saturation loop has just exited, running it again changes
   nothing: its first pass assigns no cell, leaves every candidate set as it
   is and both rules report no change, so the second run ends after that
   pass.  The excluded sets are not written by the pass. *)
C8_SaturationIdempotent ==
    [][(pc[1] = "unique" /\ pc'[1] = "check")
        => LET r == saturation_pass(1, graph(1)', number', illegal', options')
           IN  /\ r.number = number'
               /\ r.options = options'
               /\ ~r.cont_1
               /\ ~r.cont_2]_vars

\* the loop has exited after deducing at least one cell, nothing guessed yet
C8_Witness ==
    /\ pc[1] = "check"
    /\ ~cont_1[1] /\ ~cont_2[1]
    /\ memory[1] = << >>
    /\ \A v \in OwnCells(1) : illegal[v] = {}
    /\ Board(1) # raw[1]

(* C9: in the saturation loop a rule that reports a change has filled at
   least one cell that was empty before it ran, a rule that reports no
   change has left every cell alone, no rule empties a cell, and the loop is
   left exactly after an iteration in which neither rule reported a change. *)
C9_SaturationProgress ==
    [][/\ pc[1] = "sole"
          => /\ pc'[1] = "unique"
             /\ IF cont_1'[1]
                THEN \E v \in OwnCells(1) : number[v] = 0 /\ number'[v] # 0
                ELSE number' = number
             /\ \A v \in OwnCells(1) : number[v] # 0 => number'[v] # 0
       /\ pc[1] = "unique"
          => /\ IF cont_2'[1]
                THEN \E v \in OwnCells(1) : number[v] = 0 /\ number'[v] # 0
                ELSE number' = number
             /\ \A v \in OwnCells(1) : number[v] # 0 => number'[v] # 0
             /\ pc'[1] = IF cont_1'[1] \/ cont_2'[1] THEN "sole" ELSE "check"]_vars

\* inside the loop, after an iteration in which one rule filled a cell
C9_Witness ==
    /\ pc[1] = "sole"
    /\ cont_1[1] # cont_2[1]
    /\ Board(1) # raw[1]

(* C10: every solve() on a well-formed board reaches a terminal state: it
   returns True on a filled legal board, or it fails, either by raising on the
   exhausted stack or by returning False on a filled board it never
   touched.  No run guesses, backtracks and propagates for ever. *)
C10_Terminates ==
    (pc[1] = "ready" /\ WellFormed(dim[1], raw[1]))
        ~> \/ /\ pc[1] = "done" /\ result[1] = "True"
              /\ IsSolution(dim[1], Board(1))
           \/ /\ pc[1] = "raised" /\ result[1] = "IndexError"
              /\ memory[1] = << >>
           \/ /\ pc[1] = "done" /\ result[1] = "False"
              /\ memory[1] = << >> /\ Board(1) = raw[1]

\* a run on a well-formed board has ended after a guess was undone
C10_Witness ==
    /\ Terminated(1)
    /\ WellFormed(dim[1], raw[1])
    /\ \E v \in OwnCells(1) : illegal[v] # {}

(* C11: at every branching step that guesses, the guessed cell is an empty
   cell with the most candidates, the first such cell in row-major order; the
   guessed value is the smallest candidate of that cell; the snapshot pushed
   holds the board values and excluded sets as they were before the guess and
   that (cell, value) pair; nothing but the guessed cell changes value. *)
C11_BranchChoice ==
    [][(pc[1] = "check" /\ Len(memory'[1]) > Len(memory[1]))
        => LET top == memory'[1][Len(memory'[1])]
               v == top.vertex
               i == top.number
           IN  /\ memory'[1] = Append(memory[1], top)
               /\ v \in OwnCells(1)
               /\ number[v] = 0
               /\ \A u \in OwnCells(1) :
                     /\ Cardinality(options[u]) <= Cardinality(options[v])
                     /\ CellOf(1, u) < CellOf(1, v)
                           => Cardinality(options[u]) < Cardinality(options[v])
               /\ i \in options[v]
               /\ \A n \in options[v] : i <= n
               /\ top.state = Board(1)
               /\ top.illegal_numbers = [c \in Cells(1) |-> illegal[Vid(1, c)]]
               /\ number' = [number EXCEPT ![v] = i]
               /\ illegal' = illegal]_vars

\* a guess was just made on a cell other than the first empty one
C11_Witness ==
    /\ pc[1] = "outer"
    /\ Len(memory[1]) >= 1
    /\ LET top == memory[1][Len(memory[1])]
       IN  /\ number[top.vertex] = top.number
           /\ \E c \in Cells(1) : c < CellOf(1, top.vertex) /\ top.state[c] = 0

(* C12: a backtrack step removes the last snapshot of the stack and nothing
   else from it, gives every cell the value the snapshot holds for it (its
   value before that guess), gives every cell the excluded set the snapshot
   holds for it, with the guessed value added on the guessed cell, and
   leaves the candidate sets recomputed from these before the next legality
   check. *)
C12_BacktrackUndoesGuess ==
    [][(pc[1] = "check" /\ Len(memory'[1]) < Len(memory[1]))
        => LET top == memory[1][Len(memory[1])]
           IN  /\ memory'[1] = SubSeq(memory[1], 1, Len(memory[1]) - 1)
               /\ \A c \in Cells(1) :
                     /\ number'[Vid(1, c)] = top.state[c]
                     /\ illegal'[Vid(1, c)] =
                           IF Vid(1, c) = top.vertex
                           THEN top.illegal_numbers[c] \cup {top.number}
                           ELSE top.illegal_numbers[c]
               /\ number'[top.vertex] = 0
               /\ top.number \in illegal'[top.vertex]
               /\ pc'[1] = "check"
               /\ FreshCandidates(1, number', illegal', options')]_vars

\* a guess has been undone while an earlier guess still stands
C12_Witness ==
    /\ pc[1] = "check"
    /\ Len(memory[1]) >= 1
    /\ \E v \in OwnCells(1) :
          /\ number[v] = 0
          /\ illegal[v] # {}
          /\ illegal[v] # memory[1][Len(memory[1])].illegal_numbers[CellOf(1, v)]

C14_AssignedOnce ==
    [][pc[1] = "unique"
        => \A c \in Cells(1) :
              number'[Vid(1, c)] =
                  IF HiddenSingles(1, c) # {}
                  THEN Min(HiddenSingles(1, c))
                  ELSE number[Vid(1, c)]]_vars

(* C15: whenever a deduction rule, the legality check or the branch
   selection starts in solve(), the candidate sets are fresh: empty for a
   filled cell, 1..N less the values of the filled peers less the excluded
   set for an empty one.  The reads are at the start of either rule, at the
   legality test of the backtrack loop (where the branch selection starts
   too) and at the legality test of the return statement. *)
C15_FreshWhenRead ==
    pc[1] \in {"sole", "unique", "check", "done"}
        => FreshCandidates(1, number, illegal, options)

\* a guess has just been undone and the legality check is about to read the
\* candidates
C15_Witness ==
    /\ pc[1] = "check"
    /\ ~LegalState(1)
    /\ \E v \in OwnCells(1) : illegal[v] # {}
    /\ FreshCandidates(1, number, illegal, options)

(* C16: is_legal_board() is False exactly when some empty cell has no
   candidate or some filled cell holds the value of a filled cell of its
   row, column or box, and True in every other state; the return value of
   solve() is that verdict on the final board. *)
C16_LegalityVerdict ==
    pc[1] # "new"
        => /\ is_legal_board(1, number, options)
                <=> ~(\/ \E c \in Cells(1) :
                            number[Vid(1, c)] = 0 /\ options[Vid(1, c)] = {}
                      \/ \E c \in Cells(1) : \E p \in Peers(dim[1], c) :
                            /\ number[Vid(1, c)] # 0
                            /\ number[Vid(1, p)] # 0
                            /\ number[Vid(1, c)] = number[Vid(1, p)])
           /\ pc[1] = "done" => (result[1] = "True" <=> is_legal_board(1, number, options))

\* is_legal_board() is about to run on a board whose only fault is a repeated value
C16_Witness ==
    /\ pc[1] = "check"
    /\ \A c \in Cells(1) : ~(number[Vid(1, c)] = 0 /\ options[Vid(1, c)] = {})
    /\ \E c \in Cells(1) : \E p \in Peers(dim[1], c) :
          number[Vid(1, c)] # 0 /\ number[Vid(1, c)] = number[Vid(1, p)]
    /\ ~HasDuplicate(dim[1], raw[1])

(* C17: from construction on, and in every later state of solve(), the
   neighbour relation of a solver's cells is irreflexive and symmetric, holds
   exactly between distinct cells of one row, column or dim x dim box, and
   gives every cell 3N - 2*dim - 1 neighbours. *)
C17_PeerRelation ==
    /\ [](pc[1] = "ready"
            => \A c \in Cells(1) :
                  /\ Vid(1, c) \notin neighbors[Vid(1, c)]
                  /\ \A u \in neighbors[Vid(1, c)] :
                        u \in OwnCells(1) /\ Vid(1, c) \in neighbors[u]
                  /\ neighbors[Vid(1, c)] =
                        {Vid(1, e) : e \in {e \in Cells(1) :
                            /\ e # c
                            /\ \/ RowOf(dim[1], e) = RowOf(dim[1], c)
                               \/ ColOf(dim[1], e) = ColOf(dim[1], c)
                               \/ /\ RowOf(dim[1], e) \div dim[1] = RowOf(dim[1], c) \div dim[1]
                                  /\ ColOf(dim[1], e) \div dim[1] = ColOf(dim[1], c) \div dim[1]}}
                  /\ Cardinality(neighbors[Vid(1, c)]) = 3 * N(1) - 2 * dim[1] - 1)
    /\ [][pc[1] # "new" => neighbors' = neighbors]_vars

\* a 9x9 run has ended after guesses were made and undone
C17_Witness ==
    /\ Terminated(1)
    /\ dim[1] = ClassicDim
    /\ Len(memory[1]) >= 1
    /\ \A c \in Cells(1) : Cardinality(neighbors[Vid(1, c)]) = 20

(* C18: backtracking on an empty state stack is fatal: on an illegal board
   with an empty stack the next step of solve() is the raise of IndexError,
   never a return, and the raise happens in no other situation; it leaves
   every cell's value, candidates and excluded set and the empty stack as
   they were. *)
C18_EmptyStackRaises ==
    [][/\ (pc[1] = "check" /\ ~LegalState(1) /\ memory[1] = << >>)
            => (pc'[1] = "raised" /\ result'[1] = "IndexError")
       /\ (pc'[1] = "raised" /\ pc[1] # "raised")
            => /\ pc[1] = "check" /\ ~LegalState(1) /\ memory[1] = << >>
               /\ result'[1] = "IndexError"
               /\ number' = number
               /\ options' = options
               /\ illegal' = illegal
               /\ memory' = memory]_vars

\* the stack ran empty after the guesses made had all been undone
C18_Witness ==
    /\ pc[1] = "raised"
    /\ result[1] = "IndexError"
    /\ memory[1] = << >>
    /\ \E v \in OwnCells(1) : illegal[v] # {}

(* C19: givens are never modified: a cell that is nonzero in the input board
   holds that value in every state of the run and in the final board. *)
C19_GivensKept ==
    pc[1] # "new"
        => \A c \in Cells(1) : raw[1][c] # 0 => number[Vid(1, c)] = raw[1][c]

\* a run on a board with givens has ended after guesses were made and undone
C19_Witness ==
    /\ Terminated(1)
    /\ \E c \in Cells(1) : raw[1][c] # 0
    /\ \E c \in Cells(1) : raw[1][c] = 0 /\ number[Vid(1, c)] # 0
    /\ \E v \in OwnCells(1) : illegal[v] # {}

(* C20: in every state of a run the snapshots on the state stack belong to
   guesses on pairwise distinct cells, each empty in the input board and
   filled in the current board; the stack is therefore never deeper than the
   number of empty cells of the input. *)
C20_StackOfDistinctGuesses ==
    pc[1] # "new"
        => /\ \A i \in DOMAIN memory[1] :
                 /\ memory[1][i].vertex \in OwnCells(1)
                 /\ raw[1][CellOf(1, memory[1][i].vertex)] = 0
                 /\ number[memory[1][i].vertex] # 0
                 /\ \A j \in DOMAIN memory[1] :
                       i # j => memory[1][i].vertex # memory[1][j].vertex
           /\ Len(memory[1]) <= Cardinality({c \in Cells(1) : raw[1][c] = 0})

\* three guesses stand on the stack after an earlier guess was undone
C20_Witness ==
    /\ Len(memory[1]) >= 3
    /\ \E v \in OwnCells(1) : illegal[v] # {}
    /\ pc[1] = "check"

====
